---------------------------- MODULE Spec2Model ----------------------------
(***************************************************************************)
(* Model of the context-aware retrieval orchestrator of                    *)
(* intelligent_retriever.py: the LangGraph workflow of IntelligentRetriever *)
(* (analyze_context, custom_retrieve, web_retrieve, combine,                *)
(* update_memory), the two retrieval backends and the Redis session        *)
(* memory.  Confidences and similarities are counted in tenths (0.6 is 6). *)
(***************************************************************************)
EXTENDS Integers, Sequences, FiniteSets, TLC

\* ------------------------------------------------------------------------
\* Bounds of the model
MaxRuns == 2            \* retrieve() calls a caller makes one after the other
MaxRows == 2            \* rows in the documents table
MaxChunks == 2          \* "\n\n"-separated chunks in a web search answer
MaxMessages == 1        \* RetrievalConfig.max_session_messages
SessionTtl == 2         \* RetrievalConfig.session_ttl
MaxWorkers == 2         \* concurrent callers of retrieve()
MaxSubmits == 2         \* retrieve() calls of the concurrent callers
MaxFinalDocs == 4       \* documents in the final state given to update_memory
MaxHistory == 6         \* records of a session read by analyze_context
MaxClients == 2         \* clients of the server front end
MaxQuestions == 2       \* questions a client sends over its websocket

\* Program constants
ConfidenceThreshold == 6    \* 0.6 in _route_decision
SimilarityThreshold == 7    \* RetrievalConfig.similarity_threshold = 0.7
FallbackConfidence == 5     \* 0.5 in the JSONDecodeError handler
KeyPointDocs == 3           \* documents[:3] in _extract_key_points
ExcerptLen == 200           \* page_content[:200] in _extract_key_points
DigestRecords == 5          \* history[:5] in _summarize_conversation
QueryCut == 100             \* msg['query'][:100] in _summarize_conversation

\* Input domains
Queries == {"", "q"}
UserArgs == {"missing", "u1"}
\* RetrievalConfig: the default has max_docs above web_search_max_results
Configs == {[max_docs |-> 2, web_search_max_results |-> 1],
            [max_docs |-> 1, web_search_max_results |-> 2]}
Strategies == {"custom", "web", "both", "other"}
Confidences == {4, 6, 9}
Similarities == {6, 8}
NoTtl == -1
NullSimilarity == -1        \* similarity of a row whose embedding is NULL

Min(a, b) == IF a < b THEN a ELSE b

Prefix(s, n) == SubSeq(s, 1, Min(n, Len(s)))

\* A string is followed by what it is a text of and by its number of
\* characters; text[:n] is the same text cut to n characters.
Text(of, length) == [of |-> of, length |-> length]

Slice(text, n) == Text(text.of, Min(text.length, n))

\* the content column of row id: as long as an excerpt for the first row,
\* one character more for each later row
RowContent(id) == Text(<<"row", id>>, ExcerptLen + id - 1)

\* the text of chunk i of a web search answer, shorter than an excerpt
ChunkContent(i) == Text(<<"chunk", i>>, ExcerptLen - i)

\* ------------------------------------------------------------------------
\* PostgreSQLVectorStore

\* ORDER BY embedding <=> q: rows by decreasing similarity, ties keeping
\* the insertion order.  A row is [id, similarity].
RECURSIVE InsertRow(_, _)
InsertRow(sorted, row) ==
    IF sorted = <<>> THEN <<row>>
    ELSE IF Head(sorted).similarity >= row.similarity
         THEN <<Head(sorted)>> \o InsertRow(Tail(sorted), row)
         ELSE <<row>> \o sorted

RECURSIVE OrderBySimilarity(_)
OrderBySimilarity(rows) ==
    IF rows = <<>> THEN <<>>
    ELSE InsertRow(OrderBySimilarity(SubSeq(rows, 1, Len(rows) - 1)), rows[Len(rows)])

RowDocument(row) ==
    [source |-> "local", rank |-> row.id, similarity |-> row.similarity,
     page_content |-> RowContent(row.id)]

\* similarity_search(query_embedding, k); db is [query_ok, embed_ok, rows]
similarity_search(conn, db, k) ==
    IF ~conn THEN <<>>
    ELSE IF ~db.query_ok THEN <<>>
    ELSE LET top == Prefix(OrderBySimilarity(db.rows), k)
         IN  [i \in 1..Len(top) |-> RowDocument(top[i])]

\* ------------------------------------------------------------------------
\* CustomDocumentRetriever._get_relevant_documents
\* embed_query is called outside any try
AboveThreshold(doc) == doc.similarity >= SimilarityThreshold

\* the answer is [raised, exc, docs]; None >= threshold is a TypeError
CustomGetRelevantDocuments(conn, db, max_docs) ==
    IF ~conn THEN [raised |-> FALSE, exc |-> "", docs |-> <<>>]
    ELSE IF ~db.embed_ok THEN [raised |-> TRUE, exc |-> "EmbeddingError", docs |-> <<>>]
    ELSE LET found == similarity_search(conn, db, max_docs)
         IN  IF \E i \in DOMAIN found : found[i].similarity = NullSimilarity
             THEN [raised |-> TRUE, exc |-> "TypeError", docs |-> <<>>]
             ELSE [raised |-> FALSE, exc |-> "", docs |-> SelectSeq(found, AboveThreshold)]

\* ------------------------------------------------------------------------
\* WebSearchRetriever._get_relevant_documents
\* web is [ok, chunks]; chunks[i] = TRUE for a chunk with text, FALSE for a
\* blank one; an empty answer is the empty sequence
RECURSIVE WebDocuments(_, _)
WebDocuments(chunks, i) ==
    IF i > Len(chunks) THEN <<>>
    ELSE IF chunks[i]
         THEN <<[source |-> "web_search", rank |-> i, similarity |-> 0,
                 page_content |-> ChunkContent(i)]>>
              \o WebDocuments(chunks, i + 1)
         ELSE WebDocuments(chunks, i + 1)

WebGetRelevantDocuments(web, max_results) ==
    IF ~web.ok THEN <<>>
    ELSE IF web.chunks = <<>> THEN <<>>
    ELSE WebDocuments(Prefix(web.chunks, max_results), 1)

\* one key for every user
SessionKeyShared(user_id) == "default_user"

\* ------------------------------------------------------------------------
\* SessionMemory
SessionKey(user_id) == user_id

\* _extract_key_points without the cut of the content
ExtractKeyPointsWhole(documents) ==
    LET first == Prefix(documents, KeyPointDocs)
    IN  [i \in 1..Len(first) |->
            [source |-> first[i].source, content |-> first[i].page_content]]

\* _extract_key_points: one excerpt for each of the first three documents,
\* "From {source}: {content[:200]}..."
ExtractKeyPoints(documents) ==
    LET first == Prefix(documents, KeyPointDocs)
    IN  [i \in 1..Len(first) |->
            [source |-> first[i].source,
             content |-> Slice(first[i].page_content, ExcerptLen)]]

\* the message add_message builds
Message(query, response) ==
    [query |-> query,
     strategy_used |-> response.strategy_used,
     document_count |-> response.document_count,
     reasoning |-> response.reasoning,
     key_points |-> ExtractKeyPoints(response.documents)]

\* json.dumps of a message and json.loads of a stored element
JsonDumps(msg) == [json |-> msg]

JsonLoads(text) == text.json

\* LPUSH at the tail instead of the head
LPushTail(list, msg) == list \o <<msg>>

LPush(list, msg) == <<msg>> \o list

\* LTRIM that keeps the oldest elements instead of the newest
LTrimOldest(list, stop) ==
    SubSeq(list, Len(list) - Min(stop + 1, Len(list)) + 1, Len(list))

\* LTRIM that keeps one element too few
LTrimShort(list, stop) == Prefix(list, stop)

\* LTRIM key 0 stop; a negative stop counts from the end of the list
LTrim(list, stop) ==
    LET last == IF stop < 0 THEN Len(list) + stop ELSE stop
    IN  IF last < 0 THEN <<>> ELSE Prefix(list, last + 1)

\* LRANGE key start stop
LRange(list, start, stop) ==
    LET last == IF stop < 0 THEN Len(list) + stop ELSE Min(stop, Len(list) - 1)
    IN  SubSeq(list, start + 1, last + 1)

\* get_conversation_context on the list stored under the session key
GetConversationContext(list) ==
    LET messages == LRange(list, 0, -1)
    IN  [i \in 1..Len(messages) |-> JsonLoads(messages[i])]

\* a delete that leaves the newest message
DelButHead(list) == Prefix(list, 1)

\* DEL key, as clear_session issues it
Del(list) == <<>>

\* ------------------------------------------------------------------------
\* server_side/main.py

Clients == 1..MaxClients

\* the files a client posts: an empty file, a text file, bytes that are not UTF-8
Files(c) ==
    {[utf8 |-> TRUE, text |-> Text(<<>>, 0)],
     [utf8 |-> TRUE, text |-> Text(<<"file", c>>, 1)],
     [utf8 |-> FALSE, text |-> Text(<<"file", c>>, 1)]}

\* contents.decode("utf-8")
Decode(contents) ==
    IF contents.utf8 THEN [raised |-> FALSE, text |-> contents.text]
    ELSE [raised |-> TRUE, text |-> Text(<<>>, 0)]

\* the answer of the question loop to one question
Answer(content) ==
    IF content.length = 0 THEN "Please upload a context document first."
    ELSE "Thinking about your question"

\* ------------------------------------------------------------------------
\* IntelligentRetriever._summarize_conversation

NoPrompt == [kind |-> "none", lines |-> <<>>]

\* "{i}. Query: {query[:100]}...\n   Strategy: {strategy_used}, Documents: {document_count}\n"
DigestLine(i, msg) ==
    [number |-> i, query |-> Slice(msg.query, QueryCut),
     strategy |-> msg.strategy_used, documents |-> msg.document_count]

\* a digest of the whole history
SummarizeWholeHistory(history) ==
    IF history = <<>> THEN [kind |-> "No previous conversation.", lines |-> <<>>]
    ELSE [kind |-> "Recent conversation topics:",
          lines |-> [i \in 1..Len(history) |-> DigestLine(i, history[i])]]

SummarizeConversation(history) ==
    IF history = <<>> THEN [kind |-> "No previous conversation.", lines |-> <<>>]
    ELSE LET recent == Prefix(history, DigestRecords)
         IN  [kind |-> "Recent conversation topics:",
              lines |-> [i \in 1..Len(recent) |-> DigestLine(i, recent[i])]]

\* ------------------------------------------------------------------------
\* IntelligentRetriever._route_decision
\* the comparison with the boundary on the wrong side
RouteDecisionLe(search_type, confidence) ==
    IF confidence <= ConfidenceThreshold THEN "both" ELSE search_type

RouteDecision(search_type, confidence) ==
    IF confidence < ConfidenceThreshold THEN "both" ELSE search_type

\* the conditional edges of _build_graph
EdgeLabels == {"custom", "web", "both"}

\* the edges with the two retrieval nodes exchanged
EdgeTargetSwapped(label) ==
    CASE label = "custom" -> "web_retrieve"
      [] label = "web" -> "custom_retrieve"
      [] label = "both" -> "combine"

EdgeTarget(label) ==
    CASE label = "custom" -> "custom_retrieve"
      [] label = "web" -> "web_retrieve"
      [] label = "both" -> "combine"


\* ------------------------------------------------------------------------
\* What the collaborators can answer

\* chain.invoke: it raises, or returns text that is not JSON, JSON that is
\* no object, an object without a required key, or a decision
LlmResponses ==
    [kind : {"throw", "invalid_json", "not_object", "missing_field"},
     strategy : {"custom"}, confidence : {0}, context_used : {"absent"}]
    \cup
    [kind : {"decision"}, strategy : Strategies, confidence : Confidences,
     context_used : {"true", "absent"}]

RowSeqs(n) == UNION {[1..m -> Similarities] : m \in 0..n}

Tables == {[i \in 1..Len(sims) |-> [id |-> i, similarity |-> sims[i]]] : sims \in RowSeqs(MaxRows)}

\* the state of the documents table and of the embedding service at a call
\* (embed_query fails, the query fails, or the table is read)
DbAnswers ==
    {[embed_ok |-> FALSE, query_ok |-> TRUE, rows |-> <<>>],
     [embed_ok |-> TRUE, query_ok |-> FALSE, rows |-> <<>>]}
    \cup [embed_ok : {TRUE}, query_ok : {TRUE}, rows : Tables]

\* search_tool.run raises or returns its chunks
WebAnswers ==
    {[ok |-> FALSE, chunks |-> <<>>]}
    \cup [ok : {TRUE}, chunks : UNION {[1..m -> BOOLEAN] : m \in 0..MaxChunks}]

\* ------------------------------------------------------------------------
\* State
VARIABLES
    cfg,            \* RetrievalConfig: max_docs, web_search_max_results
    table,          \* the documents table when it is followed as state
    prompt,         \* the conversation_history given to the classifier prompt
    connected,      \* PostgreSQLVectorStore.connection is not None
    session,        \* Redis: session key -> list of messages, newest first
    ttl,            \* Redis: session key -> time to live, NoTtl when none
    pc,             \* where the caller's retrieve() stands
    state,          \* the RetrieverState of the run
    route,          \* what _route_decision returned in the run
    result,         \* what retrieve() returned
    error,          \* the exception that left retrieve()
    arg,            \* the arguments of the retrieve() call
    runs,           \* retrieve() calls made so far
    checkpoint,     \* MemorySaver: thread_id -> the state saved last
    llm,            \* the answers of chain.invoke in the run
    custom_calls,   \* the answers of the indexed backend in the run
    web_calls,      \* the answers of the web backend in the run
    pushed,         \* messages the run pushed to Redis
    faults,         \* collaborator faults met in the run
    path,           \* the nodes of the graph the run entered, in order
    workers,        \* concurrent callers of retrieve(): where each one stands
    submitted,      \* retrieve() calls the concurrent callers made so far
    hist,           \* session key -> messages pushed since the key was created
    last_op,        \* the last Redis command or call of a concurrent caller
    document_content,   \* server_side: the module global of main.py
    websocket,      \* server_side: client -> its connection to /ws
    sent,           \* server_side: client -> the last answer of its question loop
    asked,          \* server_side: client -> questions it sent so far
    uploaded        \* server_side: the clients that posted a file to /upload

vars == <<cfg, connected, table, prompt, session, ttl, pc, state, route, result, error, arg,
          runs, llm, custom_calls, web_calls, pushed, faults, path,
          workers, submitted, hist, last_op, checkpoint,
          document_content, websocket, sent, asked, uploaded>>

\* the state of the server front end
front == <<document_content, websocket, sent, asked, uploaded>>

\* document_content = "" at import, nobody connected
ServerStart ==
    /\ document_content = Text(<<>>, 0)
    /\ websocket = [c \in Clients |-> "none"]
    /\ sent = [c \in Clients |-> "none"]
    /\ asked = [c \in Clients |-> 0]
    /\ uploaded = {}

\* the state of the retriever library
library == <<cfg, connected, table, prompt, session, ttl, pc, state, route, result,
             error, arg, runs, llm, custom_calls, web_calls, pushed, faults, path,
             workers, submitted, hist, last_op, checkpoint>>

\* the state of the concurrent callers
aside == <<workers, submitted, hist, last_op>>

\* the state of the single caller
single == <<pc, state, route, result, error, arg, runs, llm, custom_calls,
            web_calls, pushed, faults, path, checkpoint>>

store == <<session, ttl>>
observed == <<llm, custom_calls, web_calls, pushed, faults>>
observed_calls == <<llm, custom_calls, web_calls, pushed>>

SessionKeys == {"default_user", "u1"}
Workers == 1..MaxWorkers
IdleWorker == [pc |-> "idle", user_id |-> "default_user", query |-> 0]
NoOp == [kind |-> "none", user_id |-> "default_user", again |-> FALSE]
NoResult == [returned |-> FALSE]
NoArg == [query |-> "", user_id |-> "missing"]

\* RetrieverState as retrieve() builds it
InitialState(query, user_id) ==
    [query |-> query, user_id |-> user_id, documents |-> <<>>,
     search_type |-> "", confidence |-> 0, reasoning |-> "",
     context_used |-> FALSE, conversation_history |-> <<>>]

\* the channels of a thread MemorySaver has no checkpoint for
EmptyChannels == InitialState("", "")

\* graph.invoke(input) on a thread: a key of the input replaces what the
\* checkpoint of the thread holds for it, a key the input lacks keeps it
MergeInputKeepOld(previous, input) ==
    [k \in DOMAIN previous |->
        IF previous[k] # EmptyChannels[k] \/ k \notin DOMAIN input THEN previous[k] ELSE input[k]]

MergeInput(previous, input) ==
    [k \in DOMAIN previous |-> IF k \in DOMAIN input THEN input[k] ELSE previous[k]]

Init ==
    /\ cfg \in Configs
    /\ connected \in BOOLEAN
    /\ table = <<>>
    /\ prompt = NoPrompt
    /\ ServerStart
    /\ session = [k \in SessionKeys |-> <<>>]
    /\ ttl = [k \in SessionKeys |-> NoTtl]
    /\ pc = "idle"
    /\ state = InitialState("", "default_user")
    /\ route = ""
    /\ result = NoResult
    /\ error = ""
    /\ arg = NoArg
    /\ runs = 0
    /\ llm = <<>>
    /\ custom_calls = <<>>
    /\ web_calls = <<>>
    /\ pushed = <<>>
    /\ faults = {}
    /\ path = <<>>
    /\ workers = [w \in Workers |-> IdleWorker]
    /\ submitted = 0
    /\ hist = [k \in SessionKeys |-> <<>>]
    /\ last_op = NoOp
    /\ checkpoint = [t \in SessionKeys |-> EmptyChannels]

\* the graph enters a node (or END)
Goto(node) ==
    /\ pc' = node
    /\ path' = Append(path, node)
    /\ checkpoint' = [checkpoint EXCEPT ![state.user_id] = state']
    /\ UNCHANGED aside

\* the run moves on inside a node
Within(step) ==
    /\ pc' = step
    /\ path' = path
    /\ UNCHANGED <<aside, checkpoint>>

\* an exception leaves graph.invoke and retrieve()
Raise(exc, fault) ==
    /\ pc' = "raised"
    /\ path' = path
    /\ UNCHANGED <<aside, checkpoint>>
    /\ error' = exc
    /\ faults' = faults \cup {fault}

\* retrieve(query, user_id), up to graph.invoke
Retrieve(query, user_arg) ==
    /\ pc \in {"idle", "returned", "raised"}
    /\ runs' = runs + 1
    /\ arg' = [query |-> query, user_id |-> user_arg]
    /\ LET user_id == IF user_arg = "missing" THEN "default_user" ELSE user_arg
       IN  /\ state' = MergeInput(checkpoint[user_id], InitialState(query, user_id))
           /\ checkpoint' = [checkpoint EXCEPT ![user_id] = state']
    /\ pc' = "analyze_context"
    /\ path' = <<"analyze_context">>
    /\ route' = ""
    /\ result' = NoResult
    /\ error' = ""
    /\ llm' = <<>>
    /\ custom_calls' = <<>>
    /\ web_calls' = <<>>
    /\ pushed' = <<>>
    /\ faults' = {}
    /\ UNCHANGED <<front, cfg, connected, table, prompt, store, aside>>

\* ------------------------------------------------------------------------
\* The nodes of the graph

FallbackReasoning == "Default fallback to custom search"

\* the try block of _analyze_with_context on the text chain.invoke returned:
\* [exc, state], exc = "" when the node returns
ParseDecision(st, resp, history) ==
    CASE resp.kind = "invalid_json" ->
            [exc |-> "",
             state |-> [st EXCEPT !.search_type = "custom",
                                  !.confidence = FallbackConfidence,
                                  !.reasoning = FallbackReasoning,
                                  !.context_used = FALSE,
                                  !.conversation_history = <<>>]]
      [] resp.kind = "not_object" -> [exc |-> "TypeError", state |-> st]
      [] resp.kind = "missing_field" -> [exc |-> "KeyError", state |-> st]
      [] resp.kind = "decision" ->
            [exc |-> "",
             state |-> [st EXCEPT !.search_type = resp.strategy,
                                  !.confidence = resp.confidence,
                                  !.reasoning = "llm",
                                  !.context_used = (resp.context_used = "true"),
                                  !.conversation_history = history]]

\* _analyze_with_context when get_conversation_context raises: Redis is down
AnalyzeStoreDown ==
    /\ pc = "analyze_context"
    /\ Raise("ConnectionError", "redis_read")
    /\ UNCHANGED <<front, cfg, connected, table, prompt, store, state, route, result, arg, runs, observed_calls>>

\* _analyze_with_context, then the conditional edge on _route_decision
AnalyzeWithContext(resp) ==
    /\ pc = "analyze_context"
    /\ UNCHANGED <<front, cfg, connected, table, prompt, store, result, arg, runs, custom_calls, web_calls, pushed>>
    /\ llm' = Append(llm, resp)
    /\ IF resp.kind = "throw"
       THEN /\ Raise("LlmError", "throw")
            /\ UNCHANGED <<state, route>>
       ELSE LET history == GetConversationContext(session[SessionKey(state.user_id)])
                parsed == ParseDecision(state, resp, history)
                label == RouteDecision(parsed.state.search_type,
                                       parsed.state.confidence)
            IN  IF parsed.exc # ""
                THEN /\ Raise(parsed.exc, resp.kind)
                     /\ UNCHANGED <<state, route>>
                ELSE /\ state' = parsed.state
                     /\ route' = label
                     /\ IF label \in EdgeLabels
                        THEN /\ Goto(EdgeTarget(label))
                             /\ UNCHANGED <<error, faults>>
                        ELSE Raise("KeyError", "unknown_route")

\* _custom_retrieve
CustomRetrieve(db) ==
    /\ pc = "custom_retrieve"
    /\ UNCHANGED <<front, cfg, connected, table, prompt, store, route, result, arg, runs, llm, web_calls, pushed>>
    /\ LET answer == CustomGetRelevantDocuments(connected, db, cfg.max_docs)
       IN  /\ custom_calls' = Append(custom_calls, answer)
           /\ IF answer.raised
              THEN /\ Raise(answer.exc, "embed_failed")
                   /\ UNCHANGED state
              ELSE /\ state' = [state EXCEPT !.documents = answer.docs]
                   /\ Goto("combine")
                   /\ faults' = faults \cup (IF connected /\ ~db.query_ok THEN {"query_failed"} ELSE {})
                                      \cup (IF ~connected THEN {"no_connection"} ELSE {})
                   /\ UNCHANGED error

\* _web_retrieve
WebRetrieve(web) ==
    /\ pc = "web_retrieve"
    /\ UNCHANGED <<front, cfg, connected, table, prompt, store, route, result, arg, runs, llm, custom_calls, pushed, error>>
    /\ LET docs == WebGetRelevantDocuments(web, cfg.web_search_max_results)
       IN  /\ web_calls' = Append(web_calls, docs)
           /\ state' = [state EXCEPT !.documents = docs]
           /\ Goto("combine")
           /\ faults' = faults \cup (IF ~web.ok THEN {"web_error"} ELSE {})

\* the documents _combine_results leaves in the state
CombinedDocuments(custom_docs, web_docs, max_docs) ==
    Prefix(custom_docs \o web_docs, max_docs)

\* _combine_results; the backends are called on the "both" branch only
CombineResults ==
    /\ pc = "combine"
    /\ UNCHANGED <<front, cfg, connected, table, prompt, store, route, result, arg, runs, llm, pushed>>
    /\ IF state.search_type = "both"
       THEN \E db \in DbAnswers, web \in WebAnswers :
            LET answer == CustomGetRelevantDocuments(connected, db, cfg.max_docs)
                web_docs == WebGetRelevantDocuments(web, cfg.web_search_max_results)
            IN  /\ custom_calls' = Append(custom_calls, answer)
                /\ IF answer.raised
                   THEN /\ Raise(answer.exc, "embed_failed")
                        /\ UNCHANGED <<state, web_calls>>
                   ELSE /\ web_calls' = Append(web_calls, web_docs)
                        /\ state' = [state EXCEPT !.documents =
                                        CombinedDocuments(answer.docs, web_docs, cfg.max_docs)]
                        /\ Goto("update_memory")
                        /\ faults' = faults
                                \cup (IF connected /\ ~db.query_ok THEN {"query_failed"} ELSE {})
                                \cup (IF ~connected THEN {"no_connection"} ELSE {})
                                \cup (IF ~web.ok THEN {"web_error"} ELSE {})
                        /\ UNCHANGED error
       ELSE /\ state' = [state EXCEPT !.documents = state.documents]
            /\ Goto("update_memory")
            /\ UNCHANGED <<custom_calls, web_calls, error, faults>>

\* chain.invoke, embed_query, the SQL query or search_tool.run does not
\* answer; the calls are made without a timeout and the run waits in its node
CallNeverAnswers ==
    /\ \/ pc \in {"analyze_context", "custom_retrieve", "web_retrieve"}
       \/ pc = "combine" /\ state.search_type = "both"
    /\ Within("waiting")
    /\ faults' = faults \cup {"no_answer"}
    /\ UNCHANGED <<front, cfg, connected, table, prompt, store, state, route, result, error, arg, runs,
                   llm, custom_calls, web_calls, pushed>>

\* the response_data of _update_session_memory
ResponseData(st) ==
    [strategy_used |-> st.search_type,
     document_count |-> Len(st.documents),
     reasoning |-> st.reasoning,
     documents |-> st.documents]

\* _update_session_memory up to the LPUSH of add_message
UpdateSessionMemory(redis_up) ==
    /\ pc = "update_memory"
    /\ UNCHANGED <<front, cfg, connected, table, prompt, ttl, state, route, result, arg, runs, llm, custom_calls, web_calls>>
    /\ IF ~redis_up
       THEN /\ Raise("ConnectionError", "redis_lpush")
            /\ UNCHANGED <<session, pushed>>
       ELSE LET key == SessionKey(state.user_id)
                msg == Message(state.query, ResponseData(state))
            IN  /\ session' = [session EXCEPT ![key] = LPush(@, JsonDumps(msg))]
                /\ pushed' = Append(pushed, msg)
                /\ Within("ltrim")
                /\ UNCHANGED <<error, faults>>

\* add_message: LTRIM
AddMessageTrim(redis_up) ==
    /\ pc = "ltrim"
    /\ UNCHANGED <<front, cfg, connected, table, prompt, ttl, state, route, result, arg, runs, observed_calls>>
    /\ IF ~redis_up
       THEN /\ Raise("ConnectionError", "redis_ltrim")
            /\ UNCHANGED session
       ELSE /\ session' = [session EXCEPT ![SessionKey(state.user_id)] = LTrim(@, MaxMessages - 1)]
            /\ Within("expire")
            /\ UNCHANGED <<error, faults>>

\* add_message: EXPIRE, and the return of the node
AddMessageExpire(redis_up) ==
    /\ pc = "expire"
    /\ UNCHANGED <<front, cfg, connected, table, prompt, session, state, route, result, arg, runs, observed_calls>>
    /\ IF ~redis_up
       THEN /\ Raise("ConnectionError", "redis_expire")
            /\ UNCHANGED ttl
       ELSE /\ ttl' = [ttl EXCEPT ![SessionKey(state.user_id)] =
                          IF session[SessionKey(state.user_id)] = <<>> THEN @ ELSE SessionTtl]
            /\ Goto("end")
            /\ UNCHANGED <<error, faults>>

\* the dictionary retrieve() returns from the final state
RetrievalResult(query, user_id, final_state) ==
    [returned |-> TRUE,
     query |-> query,
     user_id |-> user_id,
     documents |-> final_state.documents,
     strategy_used |-> final_state.search_type,
     confidence |-> final_state.confidence,
     reasoning |-> final_state.reasoning,
     context_used |-> final_state.context_used,
     document_count |-> Len(final_state.documents),
     conversation_length |-> Len(final_state.conversation_history)]

\* retrieve() after graph.invoke
ReturnResult ==
    /\ pc = "end"
    /\ result' = RetrievalResult(state.query, state.user_id, state)
    /\ pc' = "returned"
    /\ path' = path
    /\ UNCHANGED <<front, cfg, connected, table, prompt, store, state, route, error, arg, runs, observed, aside, checkpoint>>

\* the first call of the caller
FirstCall(query, user_arg) ==
    /\ pc = "idle"
    /\ Retrieve(query, user_arg)

Next ==
    \/ \E q \in Queries, u \in UserArgs : FirstCall(q, u)
    \/ AnalyzeStoreDown
    \/ \E resp \in LlmResponses : AnalyzeWithContext(resp)
    \/ \E db \in DbAnswers : CustomRetrieve(db)
    \/ \E web \in WebAnswers : WebRetrieve(web)
    \/ CombineResults
    \/ CallNeverAnswers
    \/ \E up \in BOOLEAN : UpdateSessionMemory(up)
    \/ \E up \in BOOLEAN : AddMessageTrim(up)
    \/ \E up \in BOOLEAN : AddMessageExpire(up)
    \/ ReturnResult

Spec == Init /\ [][Next]_vars

\* ------------------------------------------------------------------------
\* Concurrent callers of retrieve() on one Redis: threads or processes that
\* share the session store.  A caller's run is followed from its call to its
\* three Redis commands; its query is numbered by the order of the calls.

\* the state a caller's run brings to update_memory: the classifier
\* answered no JSON and no document was retrieved
WorkerFinalState(query, user_id) ==
    [InitialState(query, user_id) EXCEPT !.search_type = "custom",
                                         !.confidence = FallbackConfidence,
                                         !.reasoning = FallbackReasoning]

WorkerMessage(w) ==
    Message(workers[w].query, ResponseData(WorkerFinalState(workers[w].query, workers[w].user_id)))

Op(kind, user_id) ==
    [kind |-> kind, user_id |-> user_id,
     again |-> (last_op.kind = kind /\ last_op.user_id = user_id)]

InitConc ==
    /\ cfg = [max_docs |-> 2, web_search_max_results |-> 1]
    /\ connected = TRUE
    /\ table = <<>>
    /\ prompt = NoPrompt
    /\ ServerStart
    /\ session = [k \in SessionKeys |-> <<>>]
    /\ ttl = [k \in SessionKeys |-> NoTtl]
    /\ pc = "idle"
    /\ state = InitialState("", "default_user")
    /\ route = ""
    /\ result = NoResult
    /\ error = ""
    /\ arg = NoArg
    /\ runs = 0
    /\ llm = <<>>
    /\ custom_calls = <<>>
    /\ web_calls = <<>>
    /\ pushed = <<>>
    /\ faults = {}
    /\ path = <<>>
    /\ workers = [w \in Workers |-> IdleWorker]
    /\ submitted = 0
    /\ hist = [k \in SessionKeys |-> <<>>]
    /\ last_op = NoOp
    /\ checkpoint = [t \in SessionKeys |-> EmptyChannels]

\* a caller calls retrieve(query, user_id)
Submit(w, user_id) ==
    /\ workers[w].pc \in {"idle", "done"}
    /\ submitted < MaxSubmits
    /\ submitted' = submitted + 1
    /\ workers' = [workers EXCEPT ![w] =
                      [pc |-> "retrieving", user_id |-> user_id, query |-> submitted + 1]]
    /\ last_op' = Op("retrieve", user_id)
    /\ UNCHANGED <<front, cfg, connected, table, prompt, store, single, hist>>

\* the run of a caller gets through analyze_context, retrieval and combine
FinishRetrieval(w) ==
    /\ workers[w].pc = "retrieving"
    /\ workers' = [workers EXCEPT ![w].pc = "update_memory"]
    /\ last_op' = Op("retrieved", workers[w].user_id)
    /\ UNCHANGED <<front, cfg, connected, table, prompt, store, single, submitted, hist>>

\* add_message of a caller: LPUSH
WorkerPush(w) ==
    /\ workers[w].pc = "update_memory"
    /\ LET key == SessionKey(workers[w].user_id)
       IN  /\ session' = [session EXCEPT ![key] = LPush(@, JsonDumps(WorkerMessage(w)))]
           /\ hist' = [hist EXCEPT ![key] = <<WorkerMessage(w)>> \o @]
    /\ workers' = [workers EXCEPT ![w].pc = "ltrim"]
    /\ last_op' = Op("lpush", workers[w].user_id)
    /\ UNCHANGED <<front, cfg, connected, table, prompt, ttl, single, submitted>>

\* add_message of a caller: LTRIM
WorkerTrim(w) ==
    /\ workers[w].pc = "ltrim"
    /\ session' = [session EXCEPT ![SessionKey(workers[w].user_id)] = LTrim(@, MaxMessages - 1)]
    /\ workers' = [workers EXCEPT ![w].pc = "expire"]
    /\ last_op' = Op("ltrim", workers[w].user_id)
    /\ UNCHANGED <<front, cfg, connected, table, prompt, ttl, single, submitted, hist>>

\* add_message of a caller: EXPIRE, then retrieve() returns
WorkerExpire(w) ==
    /\ workers[w].pc = "expire"
    /\ LET key == SessionKey(workers[w].user_id)
       IN  ttl' = [ttl EXCEPT ![key] = IF session[key] = <<>> THEN @ ELSE SessionTtl]
    /\ workers' = [workers EXCEPT ![w].pc = "done"]
    /\ last_op' = Op("expire", workers[w].user_id)
    /\ UNCHANGED <<front, cfg, connected, table, prompt, session, single, submitted, hist>>

\* clear_user_session(user_id): clear_session deletes the key
ClearSession(user_id) ==
    /\ LET key == SessionKey(user_id)
       IN  /\ session' = [session EXCEPT ![key] = Del(@)]
           /\ ttl' = [ttl EXCEPT ![key] = NoTtl]
           /\ hist' = [hist EXCEPT ![key] = <<>>]
    /\ last_op' = Op("clear", user_id)
    /\ UNCHANGED <<front, cfg, connected, table, prompt, single, workers, submitted>>

NextConc ==
    \/ \E w \in Workers, u \in SessionKeys : Submit(w, u)
    \/ \E w \in Workers : FinishRetrieval(w)
    \/ \E w \in Workers : WorkerPush(w)
    \/ \E w \in Workers : WorkerTrim(w)
    \/ \E w \in Workers : WorkerExpire(w)
    \/ \E u \in SessionKeys : ClearSession(u)

SpecConc == InitConc /\ [][NextConc]_vars

\* ------------------------------------------------------------------------
\* The session store in time: one caller whose Redis commands are separate
\* round trips, the time to live of the keys running down in between.

\* a unit of time passes in Redis: every key with an expiry loses one unit
\* and a key whose expiry runs out is deleted
Tick ==
    /\ \E k \in SessionKeys : ttl[k] > 0
    /\ ttl' = [k \in SessionKeys |->
                  IF ttl[k] > 1 THEN ttl[k] - 1
                  ELSE IF ttl[k] = 1 THEN NoTtl ELSE ttl[k]]
    /\ session' = [k \in SessionKeys |-> IF ttl[k] = 1 THEN <<>> ELSE session[k]]
    /\ hist' = [k \in SessionKeys |-> IF ttl[k] = 1 THEN <<>> ELSE hist[k]]
    /\ last_op' = Op("tick", "default_user")
    /\ UNCHANGED <<front, cfg, connected, table, prompt, single, workers, submitted>>

\* get_user_conversation(user_id): LRANGE reads the list and nothing else
ReadHistory(user_id) ==
    /\ last_op' = [kind |-> "read", user_id |-> user_id,
                   again |-> (GetConversationContext(session[SessionKey(user_id)]) = <<>>)]
    /\ UNCHANGED <<front, cfg, connected, table, prompt, store, single, workers, submitted, hist>>

Caller == 1

NextTtl ==
    \/ \E u \in SessionKeys : Submit(Caller, u)
    \/ FinishRetrieval(Caller)
    \/ WorkerPush(Caller)
    \/ WorkerTrim(Caller)
    \/ WorkerExpire(Caller)
    \/ Tick
    \/ \E u \in SessionKeys : ReadHistory(u)

SpecTtl == InitConc /\ [][NextTtl]_vars

\* ------------------------------------------------------------------------
\* A caller that calls retrieve() several times, for one user or another:
\* every run starts from the checkpoint MemorySaver holds for its thread.

ThreadResponses ==
    {r \in LlmResponses :
        \/ r.kind = "invalid_json"
        \/ /\ r.kind = "decision"
           /\ r.context_used = "absent"
           /\ <<r.strategy, r.confidence>> \in {<<"custom", 9>>, <<"web", 9>>, <<"both", 9>>, <<"web", 4>>}}

\* one more call of the caller
NextCall(query, user_arg) ==
    /\ runs < MaxRuns
    /\ Retrieve(query, user_arg)

NextThread ==
    \/ \E u \in UserArgs : NextCall("q", u)
    \/ \E resp \in ThreadResponses : AnalyzeWithContext(resp)
    \/ \E db \in DbAnswers : CustomRetrieve(db)
    \/ \E web \in WebAnswers : WebRetrieve(web)
    \/ CombineResults
    \/ UpdateSessionMemory(TRUE)
    \/ AddMessageTrim(TRUE)
    \/ AddMessageExpire(TRUE)
    \/ ReturnResult

SpecThread == InitConc /\ [][NextThread]_vars

\* ------------------------------------------------------------------------
\* update_memory on any final state: the run has passed combine with up to
\* MaxFinalDocs documents, more than _extract_key_points takes, with
\* contents of the length of an excerpt and longer.

FinalDoc(source, length) ==
    [source |-> source, rank |-> 1, similarity |-> SimilarityThreshold,
     page_content |-> Text(<<"doc", source>>, length)]

FinalDocs ==
    {FinalDoc(source, length) :
        source \in {"local", "web_search"}, length \in {ExcerptLen, ExcerptLen + 1}}

FinalStates ==
    {[InitialState(q, "u1") EXCEPT !.search_type = "custom",
                                   !.confidence = ConfidenceThreshold,
                                   !.reasoning = "llm",
                                   !.documents = docs] :
        q \in Queries, docs \in UNION {[1..n -> FinalDocs] : n \in 0..MaxFinalDocs}}

InitRecord ==
    /\ cfg = [max_docs |-> MaxFinalDocs, web_search_max_results |-> 1]
    /\ connected = TRUE
    /\ table = <<>>
    /\ prompt = NoPrompt
    /\ ServerStart
    /\ session = [k \in SessionKeys |-> <<>>]
    /\ ttl = [k \in SessionKeys |-> NoTtl]
    /\ pc = "update_memory"
    /\ state \in FinalStates
    /\ route = "custom"
    /\ result = NoResult
    /\ error = ""
    /\ arg = [query |-> state.query, user_id |-> state.user_id]
    /\ runs = 1
    /\ llm = <<>>
    /\ custom_calls = <<>>
    /\ web_calls = <<>>
    /\ pushed = <<>>
    /\ faults = {}
    /\ path = <<"analyze_context", "custom_retrieve", "combine", "update_memory">>
    /\ workers = [w \in Workers |-> IdleWorker]
    /\ submitted = 0
    /\ hist = [k \in SessionKeys |-> <<>>]
    /\ last_op = NoOp
    /\ checkpoint = [t \in SessionKeys |-> IF t = state.user_id THEN state ELSE EmptyChannels]

NextRecord ==
    \/ UpdateSessionMemory(TRUE)
    \/ AddMessageTrim(TRUE)
    \/ AddMessageExpire(TRUE)
    \/ ReturnResult

SpecRecord == InitRecord /\ [][NextRecord]_vars

\* ------------------------------------------------------------------------
\* The indexed backend on a documents table of any writer: the table is
\* nullable in its embedding column, and 1 - (NULL <=> q) is NULL.

AnyTables ==
    {[i \in 1..Len(sims) |-> [id |-> i, similarity |-> sims[i]]] :
        sims \in UNION {[1..m -> Similarities \cup {NullSimilarity}] : m \in 0..MaxRows}}

InitIndexed ==
    /\ cfg \in Configs
    /\ connected \in BOOLEAN
    /\ table \in AnyTables
    /\ prompt = NoPrompt
    /\ ServerStart
    /\ session = [k \in SessionKeys |-> <<>>]
    /\ ttl = [k \in SessionKeys |-> NoTtl]
    /\ pc = "custom_retrieve"
    /\ state = [InitialState("q", "u1") EXCEPT !.search_type = "custom",
                                               !.confidence = ConfidenceThreshold,
                                               !.reasoning = "llm"]
    /\ route = "custom"
    /\ result = NoResult
    /\ error = ""
    /\ arg = [query |-> "q", user_id |-> "u1"]
    /\ runs = 1
    /\ llm = <<>>
    /\ custom_calls = <<>>
    /\ web_calls = <<>>
    /\ pushed = <<>>
    /\ faults = {}
    /\ path = <<"analyze_context", "custom_retrieve">>
    /\ workers = [w \in Workers |-> IdleWorker]
    /\ submitted = 0
    /\ hist = [k \in SessionKeys |-> <<>>]
    /\ last_op = NoOp
    /\ checkpoint = [t \in SessionKeys |-> IF t = state.user_id THEN state ELSE EmptyChannels]

\* _custom_retrieve on the table of the state
IndexedRetrieve(embed_ok, query_ok) ==
    CustomRetrieve([embed_ok |-> embed_ok, query_ok |-> query_ok, rows |-> table])

NextIndexed ==
    \/ \E e \in BOOLEAN, q \in BOOLEAN : IndexedRetrieve(e, q)
    \/ CombineResults
    \/ UpdateSessionMemory(TRUE)
    \/ AddMessageTrim(TRUE)
    \/ AddMessageExpire(TRUE)
    \/ ReturnResult

SpecIndexed == InitIndexed /\ [][NextIndexed]_vars

\* ------------------------------------------------------------------------
\* The digest of the conversation: analyze_context on a session of up to
\* MaxHistory records (max_session_messages is 10 by default), with queries
\* of the length of the cut and longer.

StoredRecords(i) ==
    {[query |-> Text(<<"query", i>>, QueryCut), strategy_used |-> "custom",
      document_count |-> 0, reasoning |-> "llm", key_points |-> <<>>],
     [query |-> Text(<<"query", i>>, QueryCut + 1), strategy_used |-> "web",
      document_count |-> 1, reasoning |-> "llm", key_points |-> <<>>],
     [query |-> Text(<<"query", i>>, QueryCut + 1), strategy_used |-> "custom",
      document_count |-> 2, reasoning |-> "llm", key_points |-> <<>>]}

RECURSIVE HistoriesOfLen(_)
HistoriesOfLen(n) ==
    IF n = 0 THEN {<<>>}
    ELSE {Append(h, r) : h \in HistoriesOfLen(n - 1), r \in StoredRecords(n)}

StoredHistories == UNION {HistoriesOfLen(n) : n \in 0..MaxHistory}

InitDigest ==
    /\ cfg = [max_docs |-> 2, web_search_max_results |-> 1]
    /\ connected = TRUE
    /\ table = <<>>
    /\ prompt = NoPrompt
    /\ ServerStart
    /\ \E h \in StoredHistories :
          session = [k \in SessionKeys |->
                        IF k = SessionKey("u1")
                        THEN [i \in 1..Len(h) |-> JsonDumps(h[i])] ELSE <<>>]
    /\ ttl = [k \in SessionKeys |->
                 IF session[k] = <<>> THEN NoTtl ELSE SessionTtl]
    /\ pc = "analyze_context"
    /\ state = InitialState("q", "u1")
    /\ route = ""
    /\ result = NoResult
    /\ error = ""
    /\ arg = [query |-> "q", user_id |-> "u1"]
    /\ runs = 1
    /\ llm = <<>>
    /\ custom_calls = <<>>
    /\ web_calls = <<>>
    /\ pushed = <<>>
    /\ faults = {}
    /\ path = <<"analyze_context">>
    /\ workers = [w \in Workers |-> IdleWorker]
    /\ submitted = 0
    /\ hist = [k \in SessionKeys |-> <<>>]
    /\ last_op = NoOp
    /\ checkpoint = [t \in SessionKeys |-> IF t = state.user_id THEN state ELSE EmptyChannels]

\* _analyze_with_context up to chain.invoke: the history is read and summed
\* up for the prompt
AnalyzeSummarize ==
    /\ pc = "analyze_context"
    /\ prompt' = SummarizeConversation(
                    GetConversationContext(session[SessionKey(state.user_id)]))
    /\ Within("invoke")
    /\ UNCHANGED <<front, cfg, connected, table, store, state, route, result, error, arg,
                   runs, observed>>

NextDigest == AnalyzeSummarize

SpecDigest == InitDigest /\ [][NextDigest]_vars

\* ------------------------------------------------------------------------
\* The server front end: clients post files to /upload and ask over /ws

\* POST /upload by client c
UploadFile(c, contents) ==
    /\ LET decoded == Decode(contents)
       IN  document_content' = IF decoded.raised THEN document_content
                               ELSE decoded.text
    /\ uploaded' = uploaded \cup {c}
    /\ UNCHANGED <<library, websocket, sent, asked>>

\* client c connects to /ws: websocket.accept()
Accept(c) ==
    /\ websocket[c] = "none"
    /\ websocket' = [websocket EXCEPT ![c] = "open"]
    /\ UNCHANGED <<library, document_content, sent, asked, uploaded>>

\* one turn of the question loop of client c: receive_text, the test of
\* document_content, send_text
Question(c) ==
    /\ websocket[c] = "open"
    /\ asked[c] < MaxQuestions
    /\ asked' = [asked EXCEPT ![c] = @ + 1]
    /\ sent' = [sent EXCEPT ![c] = Answer(document_content)]
    /\ UNCHANGED <<library, document_content, websocket, uploaded>>

\* receive_text raises WebSocketDisconnect
Disconnect(c) ==
    /\ websocket[c] = "open"
    /\ websocket' = [websocket EXCEPT ![c] = "closed"]
    /\ UNCHANGED <<library, document_content, sent, asked, uploaded>>

NextServer ==
    \/ \E c \in Clients : \E contents \in Files(c) : UploadFile(c, contents)
    \/ \E c \in Clients : Accept(c)
    \/ \E c \in Clients : Question(c)
    \/ \E c \in Clients : Disconnect(c)

SpecServer == InitConc /\ [][NextServer]_vars

\* ------------------------------------------------------------------------
\* Properties

Entered(node) == \E i \in DOMAIN path : path[i] = node

\* the run got a decision from the classifier
Decided == Len(llm) = 1 /\ llm[1].kind = "decision"

RedisFaults == {"redis_read", "redis_lpush", "redis_ltrim", "redis_expire"}

\* C1: a decision with confidence below 0.6 leaves analyze_context on the
\* "both" edge whatever its strategy; from 0.6 on (0.6 included) the run
\* takes the edge of its strategy: custom to custom_retrieve, web to
\* web_retrieve, both to the dual branch in combine.
C1_RouteFollowsConfidence ==
    (Decided /\ llm[1].strategy \in {"custom", "web", "both"}) =>
        LET s == llm[1].strategy
            c == llm[1].confidence
            taken == IF c <= 5 THEN "both" ELSE s
        IN  /\ Len(path) >= 2
            /\ route = taken
            /\ path[2] = (CASE taken = "custom" -> "custom_retrieve"
                            [] taken = "web" -> "web_retrieve"
                            [] taken = "both" -> "combine")

\* C1 witness: a web decision with confidence exactly 0.6 is in web_retrieve
C1_Witness ==
    /\ Decided
    /\ llm[1].strategy = "web"
    /\ llm[1].confidence = 6
    /\ pc = "web_retrieve"

\* C2 (as claimed): a run whose decision has confidence below 0.6 has called
\* the indexed backend and the web backend when it enters update_memory.
C2_LowConfidenceCallsBoth ==
    (Entered("update_memory") /\ state.confidence <= 5) =>
        /\ Len(custom_calls) >= 1
        /\ Len(web_calls) >= 1

\* C3 (as claimed): on the dual path the documents after combine are the
\* first max_docs of the indexed answer followed by the web answer.
C3_DualPathConcatenates ==
    (route = "both" /\ Entered("update_memory")) =>
        /\ Len(custom_calls) = 1
        /\ Len(web_calls) = 1
        /\ state.documents = Prefix(custom_calls[1].docs \o web_calls[1], cfg.max_docs)

\* C4: a run decided custom (resp. web) with confidence of 0.6 or more calls
\* the indexed (resp. web) backend once and the other backend never, and
\* the documents after combine and in the result are that one answer.
C4_SingleBackendOnly ==
    \A b \in {"custom", "web"} :
        (Decided /\ llm[1].strategy = b /\ llm[1].confidence >= 6) =>
            LET mine == IF b = "custom" THEN custom_calls ELSE web_calls
                other == IF b = "custom" THEN web_calls ELSE custom_calls
                docs == IF b = "custom" THEN custom_calls[1].docs ELSE web_calls[1]
            IN  /\ other = <<>>
                /\ Len(mine) <= 1
                /\ Entered("combine") => (Len(mine) = 1 /\ state.documents = docs)
                /\ result.returned =>
                      /\ result.documents = docs
                      /\ \A i \in DOMAIN result.documents :
                            result.documents[i].source =
                                (IF b = "custom" THEN "local" ELSE "web_search")

\* C4 witness: a run decided web with confidence 0.9 returned its web
\* documents while the table was reachable
C4_Witness ==
    /\ result.returned
    /\ Decided
    /\ llm[1].strategy = "web"
    /\ llm[1].confidence = 9
    /\ connected
    /\ Len(result.documents) >= 1

\* C5 (as claimed): the result's document_count is the length of its
\* documents and is at most max_docs.
C5_CountWithinMaxDocs ==
    result.returned =>
        /\ result.document_count = Len(result.documents)
        /\ result.document_count <= cfg.max_docs

\* C6 (as claimed): when the classifier's call fails (it raises, returns no
\* JSON, no object, or an object without a required key) the run goes on
\* with the fallback decision.
C6_FailureYieldsFallback ==
    (llm # <<>> /\ llm[1].kind # "decision") =>
        /\ error \notin {"LlmError", "TypeError", "KeyError"}
        /\ Entered("combine") =>
              /\ state.search_type = "custom"
              /\ state.confidence = FallbackConfidence
              /\ state.reasoning = FallbackReasoning
              /\ state.context_used = FALSE

\* C7 (as claimed): every run that entered the graph has pushed exactly one
\* message when it ends.
C7_EveryRunAppendsOnce ==
    pc \in {"returned", "raised"} => Len(pushed) = 1

\* C8 (as claimed): a Redis failure during the run does not reach the
\* caller of retrieve().
C8_StoreFaultsAbsorbed ==
    (faults \cap RedisFaults # {}) => pc # "raised"

\* C9 (as claimed): a backend that meets an internal fault answers with no
\* documents; it never raises.
C9_BackendsNeverRaise ==
    /\ \A i \in DOMAIN custom_calls : ~custom_calls[i].raised
    /\ error # "EmbeddingError"

\* C10 (as claimed): retrieve() with an empty query or without user_id is
\* rejected before the graph: no classifier call, no backend call, no push.
C10_InvalidInputRejected ==
    (runs > 0 /\ (arg.query = "" \/ arg.user_id = "missing")) =>
        /\ llm = <<>>
        /\ custom_calls = <<>>
        /\ web_calls = <<>>
        /\ pushed = <<>>
        /\ path = <<>>


\* ------------------------------------------------------------------------
\* Session store under concurrent callers (SpecConc)

History(user_id) == GetConversationContext(session[SessionKey(user_id)])

Appending(user_id) ==
    {w \in Workers : workers[w].user_id = user_id /\ workers[w].pc = "ltrim"}

\* C11 (as claimed): the records appended for one user are appended in the
\* order of their retrieve() calls, so from the head of the history the
\* call numbers only go down.
C11_SubmissionOrder ==
    \A u \in SessionKeys : \A i, j \in 1..Len(hist[u]) :
        i < j => hist[u][i].query > hist[u][j].query

\* C12: whatever the interleaving of the lpush, ltrim and expire of the
\* appends for one user, the history is the newest records appended since
\* the last clear, and it holds all of them up to max_session_messages.
C12_NoRecordLost ==
    \A u \in SessionKeys :
        /\ History(u) = Prefix(hist[u], Len(History(u)))
        /\ Len(History(u)) >= Min(Len(hist[u]), MaxMessages)

\* C12 witness: two appends for one user are interleaved, both pushed and
\* neither trimmed
C12_Witness ==
    \E u \in SessionKeys :
        /\ Cardinality(Appending(u)) >= 2
        /\ Len(History(u)) >= 2

C14_NewestFirst ==
    [][\A w \in Workers :
          LET u == workers[w].user_id
              before == GetConversationContext(session[SessionKey(u)])
              after == GetConversationContext(session'[SessionKey(u)])
          IN  /\ (workers[w].pc = "update_memory" /\ workers'[w].pc = "ltrim") =>
                    /\ after # <<>>
                    /\ Head(after).query = workers[w].query
                    /\ Tail(after) = before
              /\ (workers[w].pc = "ltrim" /\ workers'[w].pc = "expire" /\ before # <<>>) =>
                    /\ after # <<>>
                    /\ Head(after) = Head(before)]_vars

\* C14 witness: a record was just pushed in front of an older one
C14_Witness ==
    \E w \in Workers :
        /\ workers[w].pc = "ltrim"
        /\ Len(History(workers[w].user_id)) >= 2
        /\ History(workers[w].user_id)[1].query = workers[w].query
        /\ History(workers[w].user_id)[2].query < workers[w].query

\* C15: after clear_user_session the history of that user is empty, be it
\* the first clear or a clear that follows a clear of the same user.
C15_ClearIdempotent ==
    last_op.kind = "clear" => History(last_op.user_id) = <<>>

\* C15 witness: a user with a completed append was cleared twice in a row
C15_Witness ==
    /\ last_op.kind = "clear"
    /\ last_op.again
    /\ \E w \in Workers : workers[w].pc = "done" /\ workers[w].user_id = last_op.user_id

\* C16: a step made for one user (a call, an lpush, ltrim or expire of its
\* append, a clear) leaves the history and the expiry of every other user
\* as they were.
C16_OtherUsersUntouched ==
    [][\A b \in SessionKeys :
          b # last_op'.user_id =>
              /\ GetConversationContext(session'[SessionKey(b)])
                    = GetConversationContext(session[SessionKey(b)])
              /\ ttl'[SessionKey(b)] = ttl[SessionKey(b)]]_vars

\* C16 witness: appends for two users are interleaved, each between its
\* lpush and its ltrim
C16_Witness ==
    /\ Appending("default_user") # {}
    /\ Appending("u1") # {}
    /\ History("default_user") # <<>>
    /\ History("u1") # <<>>


\* ------------------------------------------------------------------------
\* The order of the nodes and calls that do not answer (Spec)

IsPrefix(s, t) == Len(s) <= Len(t) /\ s = SubSeq(t, 1, Len(s))

\* the dual retrieval of _combine_results was performed
BothRetrieved == route = "both" /\ Len(custom_calls) = 1 /\ Len(web_calls) = 1

\* C17 (as claimed): the nodes of a run are entered in the order
\* analyze_context, one retrieval, combine, update_memory, end with no node
\* twice, and a run that is past combine has made exactly one of the indexed
\* retrieval, the web retrieval and the dual retrieval.
C17_StateOrder ==
    /\ \/ IsPrefix(path, <<"analyze_context", "custom_retrieve", "combine", "update_memory", "end">>)
       \/ IsPrefix(path, <<"analyze_context", "web_retrieve", "combine", "update_memory", "end">>)
       \/ IsPrefix(path, <<"analyze_context", "combine", "update_memory", "end">>)
    /\ pc = "returned" => Entered("end")
    /\ Entered("update_memory") =>
          \/ Entered("custom_retrieve") /\ ~Entered("web_retrieve") /\ ~BothRetrieved
          \/ ~Entered("custom_retrieve") /\ Entered("web_retrieve") /\ ~BothRetrieved
          \/ ~Entered("custom_retrieve") /\ ~Entered("web_retrieve") /\ BothRetrieved

\* C18 (as claimed): a run whose classifier or backend call did not answer
\* does not stay in that call; it goes on as with the fallback decision or an
\* empty result.
C18_EveryRunTerminates ==
    "no_answer" \in faults => pc # "waiting"


\* ------------------------------------------------------------------------
\* Session expiry (SpecTtl)

\* C19 (as claimed): the expire that completes an append leaves the session
\* with its record at the head and a time to live of session_ttl; reading
\* the history changes no time to live; a key whose time ran out reads as
\* the empty history.
C19_SessionExpiry ==
    [][/\ \A w \in Workers :
             (workers[w].pc = "expire" /\ workers'[w].pc = "done") =>
                 LET key == SessionKey(workers[w].user_id)
                     after == GetConversationContext(session'[key])
                 IN  /\ ttl'[key] = SessionTtl
                     /\ after # <<>>
                     /\ Head(after).query = workers[w].query
       /\ last_op'.kind = "read" => ttl' = ttl
       /\ \A k \in SessionKeys :
             (ttl[k] = 1 /\ last_op'.kind = "tick") =>
                 GetConversationContext(session'[k]) = <<>>]_vars


\* ------------------------------------------------------------------------
\* Runs of one caller, one after the other (SpecThread)

UserOf(a) == IF a.user_id = "missing" THEN "default_user" ELSE a.user_id

\* the decision of a run, from the answer its classifier call received
OwnDecision == ParseDecision(InitialState(arg.query, UserOf(arg)), llm[1], <<>>).state

\* the documents of a run, from the answers its backend calls received
OwnDocuments ==
    LET label == RouteDecision(OwnDecision.search_type, OwnDecision.confidence)
    IN  CASE label = "custom" -> custom_calls[1].docs
          [] label = "web" -> web_calls[1]
          [] label = "both" /\ OwnDecision.search_type = "both" ->
                CombinedDocuments(custom_calls[1].docs, web_calls[1], cfg.max_docs)
          [] OTHER -> <<>>

C21_RecordFromFinalState ==
    pushed # <<>> =>
        LET m == pushed[1]
            docs == state.documents
        IN  /\ m.query = state.query
            /\ m.strategy_used = state.search_type
            /\ m.reasoning = state.reasoning
            /\ m.document_count = Len(docs)
            /\ Len(m.key_points) = (IF Len(docs) < 3 THEN Len(docs) ELSE 3)
            /\ \A i \in 1..Len(m.key_points) :
                  /\ m.key_points[i].source = docs[i].source
                  /\ m.key_points[i].content.of = docs[i].page_content.of
                  /\ m.key_points[i].content.length
                        = (IF docs[i].page_content.length < 200
                           THEN docs[i].page_content.length ELSE 200)
            /\ pc = "ltrim" => Head(History(state.user_id)) = m

\* C21 witness: a record was pushed for a final state of more than three
\* documents whose second document has a content longer than 200 characters
C21_Witness ==
    /\ pc = "ltrim"
    /\ Len(pushed) = 1
    /\ Len(state.documents) > 3
    /\ state.documents[2].page_content.length > 200
    /\ Len(pushed[1].key_points) = 3


\* C22 (as claimed): whenever the history of a user is read, between the
\* lpush and the ltrim of an append as at any other time, the reader gets at
\* most max_session_messages records.
C22_ReaderSeesAtMostMax ==
    [][last_op'.kind = "read" =>
          Len(GetConversationContext(session[SessionKey(last_op'.user_id)])) <= MaxMessages]_vars


\* ------------------------------------------------------------------------
\* What a run reports (Spec)

\* C23 (as claimed): a returned run reports the strategy it stored in its
\* record, and that strategy names the backends it called: both when the
\* indexed and the web backend were called, custom or web when only that
\* one was.
C23_StrategyNamesBackends ==
    pc = "returned" =>
        /\ \A i \in DOMAIN pushed : pushed[i].strategy_used = result.strategy_used
        /\ result.strategy_used = "both" <=> (custom_calls # <<>> /\ web_calls # <<>>)
        /\ result.strategy_used = "custom" <=> (custom_calls # <<>> /\ web_calls = <<>>)
        /\ result.strategy_used = "web" <=> (custom_calls = <<>> /\ web_calls # <<>>)


\* ------------------------------------------------------------------------
\* Clear and expiry of a session

\* C24 (as claimed): after clear_user_session has returned, the history of
\* the user holds no record of a call made before the clear; stated on the
\* step that follows the clear, where the calls made before it are those
\* numbered up to submitted.
C24_ClearWinsOverInFlight ==
    [][last_op.kind = "clear" =>
          LET after == GetConversationContext(session'[SessionKey(last_op.user_id)])
          IN  \A i \in 1..Len(after) : after[i].query > submitted]_vars


\* C25 (as claimed): a session key that holds a record has a time to live
\* between 1 and session_ttl, in every state: between the commands of
\* add_message and after an add_message that Redis failed part-way.
C25_StoredSessionExpires ==
    \A k \in SessionKeys :
        session[k] # <<>> => (ttl[k] >= 1 /\ ttl[k] <= SessionTtl)


\* ------------------------------------------------------------------------
\* The history a run reads (SpecThread)

InGraphAfterAnalyze ==
    {"custom_retrieve", "web_retrieve", "combine", "update_memory", "ltrim", "expire", "end"}

\* C26 (as claimed): analyze_context leaves in the state a conversation
\* history as long as the history it read, the later nodes keep it, and
\* retrieve() returns its length as conversation_length.
C26_ConversationLength ==
    [][/\ (pc = "analyze_context" /\ pc' \in InGraphAfterAnalyze) =>
             Len(state'.conversation_history)
                = Len(GetConversationContext(session[SessionKey(state.user_id)]))
       /\ (pc \in InGraphAfterAnalyze /\ pc' \in InGraphAfterAnalyze) =>
             state'.conversation_history = state.conversation_history
       /\ (pc = "end" /\ pc' = "returned") =>
             result'.conversation_length = Len(state.conversation_history)]_vars


\* ------------------------------------------------------------------------
\* The indexed backend (SpecIndexed)

C28_DigestOfFiveNewest ==
    pc = "invoke" =>
        LET history == History(state.user_id)
        IN  IF history = <<>>
            THEN prompt = [kind |-> "No previous conversation.", lines |-> <<>>]
            ELSE /\ prompt.kind = "Recent conversation topics:"
                 /\ Len(prompt.lines) = (IF Len(history) < 5 THEN Len(history) ELSE 5)
                 /\ \A i \in 1..Len(prompt.lines) :
                       /\ prompt.lines[i].number = i
                       /\ prompt.lines[i].query.of = history[i].query.of
                       /\ prompt.lines[i].query.length
                             = (IF history[i].query.length < 100
                                THEN history[i].query.length ELSE 100)
                       /\ prompt.lines[i].strategy = history[i].strategy_used
                       /\ prompt.lines[i].documents = history[i].document_count

\* C28 witness: a history of more than five records, the newest with a
\* query of more than 100 characters, was summed up in five lines
C28_Witness ==
    /\ pc = "invoke"
    /\ Len(History(state.user_id)) > 5
    /\ History(state.user_id)[1].query.length > 100
    /\ Len(prompt.lines) = 5
    /\ prompt.lines[1].query.length = 100


\* ------------------------------------------------------------------------
\* The server front end (SpecServer)

\* C29: the uploaded document is per client: a client that has posted no
\* file itself is answered "Please upload a context document first."
\* whatever the other clients have posted.
C29_ContextPerClient ==
    \A c \in Clients :
        (c \notin uploaded /\ sent[c] # "none")
            => sent[c] = "Please upload a context document first."

=============================================================================
